---- MODULE Spec2Model ----
(***************************************************************************)
(* Cars EDA dashboard (app1.py): a Streamlit script that is re-run from    *)
(* top to bottom on every widget interaction.  The state is the two CSV    *)
(* files on disk, the st.cache_data entries of the two loaders, the script *)
(* globals raw / clean and the widget values of the session.  Everything   *)
(* the script derives in a run (df, num_cols, cat_cols, the metrics, the   *)
(* figures, the insights) is a function of that state and is defined below *)
(* as a state function with the script's variable name.                    *)
(*                                                                         *)
(* Cells.  A numeric cell is <<>> (missing, NaN) or <<v>>.  The Year       *)
(* column is held in half-years (<<4039>> is 2019.5) so that int() on a    *)
(* Year is a real truncation; every other numeric column is in units.      *)
(*                                                                         *)
(* Session.  A widget keeps its value while another page is shown; a       *)
(* session in which Streamlit drops the value of a widget that is not      *)
(* rendered only reaches a subset of these states.                         *)
(*                                                                         *)
(* Arithmetic.  Means and correlations are exact rationals; rounding is    *)
(* half-to-even on the exact value.  sort_values keeps equal values in     *)
(* column order (the sort pandas runs on so few entries is stable).        *)
(* Calls into seaborn / matplotlib are recorded by the figure they are     *)
(* asked to draw; what the library does with the data is not modelled.     *)
(***************************************************************************)
EXTENDS Integers, Sequences, FiniteSets, TLC

\* Largest number of data rows of Cars_cleaned.csv that is explored.
MaxRows == 2

NaN == <<>>

\* ------------------------------------------------------------------------
\* The files on disk
\* ------------------------------------------------------------------------

\* Two header orders of Cars_cleaned.csv: Price before / after Year.
LayoutPriceFirst ==
    <<"Company_Name", "Price", "Year", "Kilometers_Driven",
      "Fuel_Type", "Transmission", "Power_value", "Extra">>

LayoutYearFirst ==
    <<"Company_Name", "Year", "Price", "Kilometers_Driven",
      "Fuel_Type", "Transmission", "Power_value", "Extra">>

Layouts == {LayoutPriceFirst, LayoutYearFirst}

\* The data lines the explored files are made of.  "Extra" stands for any
\* further column of the file; its cells are the text of the file.
RowPool ==
    { [Company_Name |-> "Maruti", Year |-> <<4036>>, Price |-> <<2>>,
       Kilometers_Driven |-> <<3>>, Power_value |-> <<1>>,
       Fuel_Type |-> "Petrol", Transmission |-> "Manual", Extra |-> "True"],
      [Company_Name |-> "Honda", Year |-> <<4038>>, Price |-> <<4>>,
       Kilometers_Driven |-> <<1>>, Power_value |-> <<2>>,
       Fuel_Type |-> "Diesel", Transmission |-> "Automatic", Extra |-> "False"],
      [Company_Name |-> "Maruti", Year |-> <<4039>>, Price |-> <<4>>,
       Kilometers_Driven |-> <<2>>, Power_value |-> <<3>>,
       Fuel_Type |-> "Diesel", Transmission |-> "Manual", Extra |-> "True"],
      [Company_Name |-> "Honda", Year |-> NaN, Price |-> <<1>>,
       Kilometers_Driven |-> NaN, Power_value |-> <<1>>,
       Fuel_Type |-> "Petrol", Transmission |-> "Manual", Extra |-> "unknown"] }

SeqsUpTo(S, n) == UNION {[1..k -> S] : k \in 0..n}

CleanFiles == {[cols |-> L, rows |-> rs] : L \in Layouts, rs \in SeqsUpTo(RowPool, MaxRows)}

\* Cars.csv is only displayed, never computed on.
RawFiles ==
    { [cols |-> <<"Name", "New_Price">>,
       rows |-> <<[Name |-> "Maruti Swift", New_Price |-> "2.1 Lakh"]>>] }

\* ------------------------------------------------------------------------
\* pandas helpers
\* ------------------------------------------------------------------------
NumericNames == {"Price", "Year", "Kilometers_Driven", "Power_value"}

Range(s) == {s[i] : i \in DOMAIN s}

\* table[name]: the column as a sequence of cells
Column(t, name) == [i \in DOMAIN t.rows |-> t.rows[i][name]]

\* The dtype pd.read_csv infers for a column from the text of its cells.
InferDtype(file, name) ==
    LET cells == Column(file, name) IN
    IF Len(cells) = 0 THEN "object"
    ELSE IF name \in NumericNames
         THEN IF \A i \in DOMAIN cells :
                    /\ cells[i] # NaN
                    /\ (name = "Year" => cells[i][1] % 2 = 0)
              THEN "int64" ELSE "float64"
         ELSE IF \A i \in DOMAIN cells : cells[i] \in {"True", "False"}
              THEN "bool" ELSE "object"

read_csv(file) ==
    [cols   |-> file.cols,
     dtypes |-> [c \in Range(file.cols) |-> InferDtype(file, c)],
     rows   |-> file.rows]

VARIABLES fileRaw, fileClean,      \* Cars.csv, Cars_cleaned.csv on disk
          rawCache, cleanCache,    \* st.cache_data entries: <<>> or <<table>>
          rawReads, cleanReads,    \* number of pd.read_csv calls per file
          raw, clean,              \* script globals: <<>> or <<table>>
          page, company, year_range, col, x, y, method   \* widget values

vars == <<fileRaw, fileClean, rawCache, cleanCache, rawReads, cleanReads,
          raw, clean, page, company, year_range, col, x, y, method>>

Pages == {"Introduction", "Analysis", "Insights & Conclusion"}
Methods == {"Correlation Heatmap", "Fuel vs Price"}

\* ------------------------------------------------------------------------
\* Data loaders (memoized by st.cache_data on the function identity)
\* ------------------------------------------------------------------------

\* a loader without memoization: every call reads the file
cache_data_absent(cache, file) ==
    [value |-> read_csv(file), cache |-> cache, reads |-> 1]

\* A call of a loader decorated with @st.cache_data: the value it returns,
\* the cache entry it leaves and the number of file reads it performed.
cache_data(cache, file) ==
    IF cache # <<>>
    THEN [value |-> cache[1], cache |-> cache, reads |-> 0]
    ELSE [value |-> read_csv(file), cache |-> <<read_csv(file)>>, reads |-> 1]

load_raw == cache_data(rawCache, fileRaw)

load_cleaned == cache_data(cleanCache, fileClean)

\* ------------------------------------------------------------------------
\* Series operations
\* ------------------------------------------------------------------------
unique(series) == Range(series)

Present(series) == {series[i][1] : i \in {j \in DOMAIN series : series[j] # NaN}}

\* Series.min() / Series.max(): missing cells are skipped, NaN if none is left
SeriesMin(series) ==
    IF Present(series) = {} THEN NaN
    ELSE <<CHOOSE m \in Present(series) : \A v \in Present(series) : m <= v>>

SeriesMax(series) ==
    IF Present(series) = {} THEN NaN
    ELSE <<CHOOSE m \in Present(series) : \A v \in Present(series) : m >= v>>

\* int() of a Year held in half-years: truncation toward zero
IntOfYear(h) == IF h >= 0 THEN h \div 2 ELSE -((-h) \div 2)

\* Series.isin(values)
isin(series, values) == [i \in DOMAIN series |-> series[i] \in values]

\* between() with the right end exclusive
between_right_open(series, left, right) ==
    [i \in DOMAIN series |->
        /\ series[i] # NaN
        /\ 2 * left <= series[i][1]
        /\ series[i][1] < 2 * right]

\* Series.between(left, right) on the Year column (cells in half-years,
\* left and right in years): inclusive on both ends, False for a missing cell
between(series, left, right) ==
    [i \in DOMAIN series |->
        /\ series[i] # NaN
        /\ 2 * left <= series[i][1]
        /\ series[i][1] <= 2 * right]

\* mask1 & mask2
MaskAnd(m1, m2) == [i \in DOMAIN m1 |-> m1[i] /\ m2[i]]

RECURSIVE TakeRows(_, _, _)
TakeRows(rows, mask, i) ==
    IF i > Len(rows) THEN <<>>
    ELSE (IF mask[i] THEN <<rows[i]>> ELSE <<>>) \o TakeRows(rows, mask, i + 1)

\* table.loc[mask, ["Company_Name", "Year"]]: the filter columns only
BoolIndex_filter_columns(t, mask) ==
    [cols |-> <<"Company_Name", "Year">>,
     dtypes |-> [c \in {"Company_Name", "Year"} |-> t.dtypes[c]],
     rows |-> TakeRows(t.rows, mask, 1)]

\* table[mask]: a new table with the rows whose mask is True, in order,
\* and the columns and dtypes of the table
BoolIndex(t, mask) == [cols |-> t.cols, dtypes |-> t.dtypes, rows |-> TakeRows(t.rows, mask, 1)]

\* ------------------------------------------------------------------------
\* Analysis page: filters
\* ------------------------------------------------------------------------

\* options and default of the brand multiselect
BrandOptions(t) == unique(Column(t, "Company_Name"))

\* min_value and max_value of the year slider; <<>> when int() raises
\* ValueError because Year has no value (min() is NaN)
SliderBounds(t) ==
    IF SeriesMin(Column(t, "Year")) = NaN THEN <<>>
    ELSE <<IntOfYear(SeriesMin(Column(t, "Year"))[1]),
           IntOfYear(SeriesMax(Column(t, "Year"))[1])>>

\* the values the slider can return
SliderValues(t) ==
    IF SliderBounds(t) = <<>> THEN {}
    ELSE {r \in (SliderBounds(t)[1]..SliderBounds(t)[2])
                 \X (SliderBounds(t)[1]..SliderBounds(t)[2]) : r[1] <= r[2]}

WorkingView(t, brands, yr) ==
    BoolIndex(t, MaskAnd(isin(Column(t, "Company_Name"), brands),
                         between(Column(t, "Year"), yr[1], yr[2])))

started == clean # <<>>

\* the Analysis page gets past its filters (line 79 does not raise)
AnalysisReady == started /\ page = "Analysis" /\ year_range # <<>>

df == WorkingView(clean[1], company, year_range)

\* ------------------------------------------------------------------------
\* Analysis page: column classifier and KPIs
\* ------------------------------------------------------------------------
NumberDtypes == {"int64", "float64"}

ObjectDtypes == {"object"}

\* DataFrame.select_dtypes(include=...).columns, in column order
select_dtypes(t, include) == SelectSeq(t.cols, LAMBDA c : t.dtypes[c] \in include)

num_cols == select_dtypes(df, NumberDtypes)

cat_cols == select_dtypes(df, ObjectDtypes)

RECURSIVE SumCells(_, _)
SumCells(series, i) ==
    IF i > Len(series) THEN 0
    ELSE (IF series[i] = NaN THEN 0 ELSE series[i][1]) + SumCells(series, i + 1)

CountCells(series) == Cardinality({i \in DOMAIN series : series[i] # NaN})

\* n / d rounded to the nearest integer, ties to even (n >= 0, d > 0)
RoundHalfEven(n, d) ==
    LET q == n \div d
        r == n % d
    IN  IF 2 * r < d THEN q
        ELSE IF 2 * r > d THEN q + 1
        ELSE IF q % 2 = 0 THEN q ELSE q + 1

\* round(series.mean(), 2), in hundredths; NaN when no cell has a value
RoundedMean(series) ==
    IF CountCells(series) = 0 THEN NaN
    ELSE <<RoundHalfEven(100 * SumCells(series, 1), CountCells(series))>>

\* the three st.metric calls of the Analysis page
KPIs(t) ==
    [selected_cars |-> Len(t.rows),
     avg_price     |-> RoundedMean(Column(t, "Price")),
     avg_power     |-> RoundedMean(Column(t, "Power_value"))]

\* ------------------------------------------------------------------------
\* Pearson correlation
\* ------------------------------------------------------------------------

\* rows where both cells have a value
Both(sx, sy) == {i \in DOMAIN sx : sx[i] # NaN /\ sy[i] # NaN}

RECURSIVE SumProd(_, _, _, _)
SumProd(sx, sy, I, i) ==
    IF i > Len(sx) THEN 0
    ELSE (IF i \in I THEN sx[i][1] * sy[i][1] ELSE 0) + SumProd(sx, sy, I, i + 1)

RECURSIVE SumOver(_, _, _)
SumOver(sx, I, i) ==
    IF i > Len(sx) THEN 0
    ELSE (IF i \in I THEN sx[i][1] ELSE 0) + SumOver(sx, I, i + 1)

\* the moments of a pair of series over the rows where both have a value:
\* co = n*Sxy - Sx*Sy, xx = n*Sxx - Sx*Sx, yy = n*Syy - Sy*Sy
PairMoments(sx, sy) ==
    LET I  == Both(sx, sy)
        n  == Cardinality(I)
        ax == SumOver(sx, I, 1)
        ay == SumOver(sy, I, 1)
    IN  [co |-> n * SumProd(sx, sy, I, 1) - ax * ay,
         xx |-> n * SumProd(sx, sx, I, 1) - ax * ax,
         yy |-> n * SumProd(sy, sy, I, 1) - ay * ay]

\* the correlation is NaN: fewer than two pairs, or a constant side
MomentsNaN(m) == m.xx = 0 \/ m.yy = 0

CorrIsNaN(sx, sy) == MomentsNaN(PairMoments(sx, sy))

\* r = CorrNum / sqrt(CorrDen2)
CorrNum(sx, sy) == PairMoments(sx, sy).co

CorrDen2(sx, sy) == LET m == PairMoments(sx, sy) IN m.xx * m.yy

RECURSIVE ISqrt(_, _, _)
\* the largest k in lo..hi with k*k <= n
ISqrt(n, lo, hi) ==
    IF lo = hi THEN lo
    ELSE LET mid == (lo + hi + 1) \div 2 IN
         IF mid * mid <= n THEN ISqrt(n, mid, hi) ELSE ISqrt(n, lo, mid - 1)

\* |r| in thousandths, rounded half to even, from N = |CoMoment|, D = den^2
RoundMilli(N, D) ==
    LET T  == 1000000 * N * N
        k0 == ISqrt(T \div D, 0, 1000)
        d4 == 4 * (T - (k0 * k0 + k0) * D)
    IN  IF d4 < D THEN k0
        ELSE IF d4 > D THEN k0 + 1
        ELSE IF k0 % 2 = 0 THEN k0 ELSE k0 + 1

\* round(sx.corr(sy), 3) in thousandths, NaN when the correlation is NaN
RoundedCorr(sx, sy) ==
    LET m == PairMoments(sx, sy) IN
    IF MomentsNaN(m) THEN NaN
    ELSE IF m.co < 0
         THEN <<-RoundMilli(-m.co, m.xx * m.yy)>>
         ELSE <<RoundMilli(m.co, m.xx * m.yy)>>

\* na/sqrt(da) > nb/sqrt(db), for da > 0 and db > 0
RatioGreater(na, da, nb, db) ==
    IF na >= 0 /\ nb >= 0 THEN na * na * db > nb * nb * da
    ELSE IF na < 0 /\ nb < 0 THEN na * na * db < nb * nb * da
    ELSE na >= 0 /\ nb < 0

\* r(sa, sp) > r(sb, sp), neither NaN
CorrGreater(sa, sb, sp) ==
    RatioGreater(CorrNum(sa, sp), CorrDen2(sa, sp), CorrNum(sb, sp), CorrDen2(sb, sp))

RECURSIVE GCD(_, _)
GCD(a, b) == IF b = 0 THEN a ELSE GCD(b, a % b)

\* sx.corr(sy) as an exact value: NaN, or <<sign, p, q>> with r*r = p/q in
\* lowest terms
Corr(sx, sy) ==
    LET m == PairMoments(sx, sy)
        n == m.co
        d == m.xx * m.yy
        g == GCD(n * n, d)
    IN  IF MomentsNaN(m) THEN NaN
        ELSE <<IF n > 0 THEN 1 ELSE IF n < 0 THEN -1 ELSE 0, (n * n) \div g, d \div g>>

\* DataFrame.corr() over the given columns
CorrMatrix(t, names) ==
    [a \in Range(names), b \in Range(names) |-> Corr(Column(t, a), Column(t, b))]

\* ------------------------------------------------------------------------
\* Analysis page: the three tabs
\* ------------------------------------------------------------------------
NoInfo == <<>>

\* tab1: the figure drawn for the chosen column
Univariate(t, c, cats) ==
    IF c \in Range(cats)
    THEN [plot |-> "countplot", x |-> "", y |-> c, hue |-> "", kde |-> FALSE,
          title |-> <<"Distribution of", c>>, info |-> NoInfo]
    ELSE [plot |-> "histplot", x |-> c, y |-> "", hue |-> "", kde |-> TRUE,
          title |-> <<"Distribution of", c>>, info |-> NoInfo]

\* tab2 with the box plot tested first and on the x column alone
Bivariate_box_first(t, xc, yc, nums, cats) ==
    IF xc \in Range(cats)
    THEN [plot |-> "boxplot", x |-> xc, y |-> yc, hue |-> "", kde |-> FALSE,
          title |-> <<xc, "vs", yc>>, info |-> NoInfo]
    ELSE IF xc \in Range(nums) /\ yc \in Range(nums)
    THEN [plot |-> "scatterplot", x |-> xc, y |-> yc, hue |-> "", kde |-> FALSE,
          title |-> <<xc, "vs", yc>>,
          info |-> <<"Correlation", RoundedCorr(Column(t, xc), Column(t, yc))>>]
    ELSE [plot |-> "countplot", x |-> xc, y |-> "", hue |-> yc, kde |-> FALSE,
          title |-> <<xc, "vs", yc>>, info |-> NoInfo]

\* tab2: the figure drawn for the chosen pair, and the st.info message
Bivariate(t, xc, yc, nums, cats) ==
    IF xc \in Range(nums) /\ yc \in Range(nums)
    THEN [plot |-> "scatterplot", x |-> xc, y |-> yc, hue |-> "", kde |-> FALSE,
          title |-> <<xc, "vs", yc>>,
          info |-> <<"Correlation", RoundedCorr(Column(t, xc), Column(t, yc))>>]
    ELSE IF xc \in Range(cats) /\ yc \in Range(nums)
    THEN [plot |-> "boxplot", x |-> xc, y |-> yc, hue |-> "", kde |-> FALSE,
          title |-> <<xc, "vs", yc>>, info |-> NoInfo]
    ELSE [plot |-> "countplot", x |-> xc, y |-> "", hue |-> yc, kde |-> FALSE,
          title |-> <<xc, "vs", yc>>, info |-> NoInfo]

\* tab3: the figure drawn for the chosen method
Multivariate(t, m, nums) ==
    IF m = "Correlation Heatmap"
    THEN [plot |-> "heatmap", over |-> nums, data |-> CorrMatrix(t, nums),
          x |-> "", y |-> "", hue |-> "", title |-> <<"Correlation Matrix">>]
    ELSE [plot |-> "barplot", over |-> <<>>, data |-> <<>>,
          x |-> "Fuel_Type", y |-> "Price", hue |-> "Transmission",
          title |-> <<"Fuel Type vs Price">>]

\* the KPI row above the tabs
metrics == KPIs(df)

tab1 == Univariate(df, col, cat_cols)

tab2 == Bivariate(df, x, y, num_cols, cat_cols)

tab3 == Multivariate(df, method, num_cols)

\* ------------------------------------------------------------------------
\* Introduction page
\* ------------------------------------------------------------------------

\* int(series.mean()): <<>> when the mean is NaN and int() raises ValueError
IntMean(series) ==
    IF CountCells(series) = 0 THEN <<>>
    ELSE <<SumCells(series, 1) \div CountCells(series)>>

\* the metrics shown; c3, c4 and the two tables are not reached when int()
\* raises
IntroductionPage(t, r) ==
    IF IntMean(Column(t, "Kilometers_Driven")) = <<>>
    THEN [error |-> "ValueError", total_cars |-> Len(t.rows),
          avg_price |-> RoundedMean(Column(t, "Price")),
          avg_km |-> <<>>, total_brands |-> 0, tables |-> <<>>]
    ELSE [error |-> "", total_cars |-> Len(t.rows),
          avg_price |-> RoundedMean(Column(t, "Price")),
          avg_km |-> IntMean(Column(t, "Kilometers_Driven")),
          total_brands |-> Cardinality(unique(Column(t, "Company_Name"))),
          tables |-> <<r, t>>]

introduction == IntroductionPage(clean[1], raw[1])

\* ------------------------------------------------------------------------
\* Insights & Conclusion page
\* ------------------------------------------------------------------------

\* idxmax() returning the last row holding the largest value
idxmax_last(series) ==
    IF Present(series) = {} THEN 0
    ELSE CHOOSE i \in DOMAIN series :
            /\ series[i] = SeriesMax(series)
            /\ \A j \in (i + 1)..Len(series) : series[j] # SeriesMax(series)

\* Series.idxmax(): the first row holding the largest value, missing cells
\* skipped; 0 when there is no value (ValueError)
idxmax(series) ==
    IF Present(series) = {} THEN 0
    ELSE CHOOSE i \in DOMAIN series :
            /\ series[i] = SeriesMax(series)
            /\ \A j \in 1..(i - 1) : series[j] # SeriesMax(series)

\* text values in sorted order, as Series.mode() returns its result
SortedText == <<"Automatic", "Diesel", "Honda", "Manual", "Maruti", "Petrol">>

TextRank(v) == CHOOSE i \in DOMAIN SortedText : SortedText[i] = v

Occurrences(series, v) == Cardinality({i \in DOMAIN series : series[i] = v})

\* series.mode()[0]: the first, in sorted order, of the most frequent values
mode0(series) ==
    CHOOSE v \in Range(series) :
        \A w \in Range(series) :
            \/ Occurrences(series, v) > Occurrences(series, w)
            \/ /\ Occurrences(series, v) = Occurrences(series, w)
               /\ TextRank(v) <= TextRank(w)

RECURSIVE PriceMoments(_, _, _)
\* corr()["Price"]: the moments of each named column against Price
PriceMoments(t, names, k) ==
    IF k > Len(names) THEN <<>>
    ELSE <<PairMoments(Column(t, names[k]), Column(t, "Price"))>>
         \o PriceMoments(t, names, k + 1)

\* position (from 0) of entry i of the correlations m in
\* sort_values(ascending=False): descending, equal values in column order,
\* NaN last in column order
SortedPosition(m, i) ==
    LET gt(a, b) == RatioGreater(a.co, a.xx * a.yy, b.co, b.xx * b.yy) IN
    IF MomentsNaN(m[i])
    THEN Cardinality({k \in DOMAIN m : ~MomentsNaN(m[k])})
         + Cardinality({k \in 1..(i - 1) : MomentsNaN(m[k])})
    ELSE Cardinality({k \in DOMAIN m :
            /\ ~MomentsNaN(m[k])
            /\ \/ gt(m[k], m[i])
               \/ k < i /\ ~gt(m[i], m[k])})

\* .index[1] of the sorted correlations with Price
strongest_corr(t) ==
    LET names == select_dtypes(t, NumberDtypes)
        m     == PriceMoments(t, names, 1)
    IN  names[CHOOSE i \in DOMAIN names : SortedPosition(m, i) = 1]

\* the Insights page computing on the filtered view
InsightData_filtered ==
    IF year_range = <<>> THEN clean[1]
    ELSE WorkingView(clean[1], company, year_range)

\* the table the Insights page computes on
InsightData == clean[1]

\* what the page writes; the statements after idxmax() are not reached when
\* it raises ValueError
InsightsPage(t) ==
    IF idxmax(Column(t, "Price")) = 0
    THEN [error |-> "ValueError", total_records |-> Len(t.rows),
          most_expensive_brand |-> "", most_common_fuel |-> "",
          strongest_price_driver |-> ""]
    ELSE [error |-> "", total_records |-> Len(t.rows),
          most_expensive_brand |-> t.rows[idxmax(Column(t, "Price"))].Company_Name,
          most_common_fuel |-> mode0(Column(t, "Fuel_Type")),
          strongest_price_driver |-> strongest_corr(t)]

\* ------------------------------------------------------------------------
\* Script runs
\* ------------------------------------------------------------------------

\* Lines 27-28 of every run
LoadData ==
    /\ raw' = <<load_raw.value>>
    /\ rawCache' = load_raw.cache
    /\ rawReads' = rawReads + load_raw.reads
    /\ clean' = <<load_cleaned.value>>
    /\ cleanCache' = load_cleaned.cache
    /\ cleanReads' = cleanReads + load_cleaned.reads
    /\ UNCHANGED <<fileRaw, fileClean>>

Init ==
    /\ fileRaw \in RawFiles
    /\ fileClean \in CleanFiles
    /\ rawCache = <<>> /\ cleanCache = <<>>
    /\ rawReads = 0 /\ cleanReads = 0
    /\ raw = <<>> /\ clean = <<>>
    /\ page = "Introduction"
    /\ company = {}
    /\ year_range = <<>>
    /\ col = "" /\ x = "" /\ y = ""
    /\ method = "Correlation Heatmap"

\* First run of the script in the session: every widget takes its default.
FirstRun ==
    /\ ~started
    /\ LoadData
    /\ page' = "Introduction"
    /\ company' = BrandOptions(load_cleaned.value)
    /\ year_range' = SliderBounds(load_cleaned.value)
    /\ col' = load_cleaned.value.cols[1]
    /\ x' = load_cleaned.value.cols[1]
    /\ y' = load_cleaned.value.cols[1]
    /\ method' = "Correlation Heatmap"

\* sidebar radio "Navigation"
SelectPage ==
    /\ started
    /\ \E p \in Pages : page' = p
    /\ LoadData
    /\ UNCHANGED <<company, year_range, col, x, y, method>>

\* sidebar multiselect "Select Brand"
SelectBrand ==
    /\ started /\ page = "Analysis"
    /\ \E B \in SUBSET BrandOptions(clean[1]) : company' = B
    /\ LoadData
    /\ UNCHANGED <<page, year_range, col, x, y, method>>

\* sidebar slider "Manufacturing Year"
SelectYear ==
    /\ AnalysisReady
    /\ \E r \in SliderValues(clean[1]) : year_range' = r
    /\ LoadData
    /\ UNCHANGED <<page, company, col, x, y, method>>

\* columns the explored user picks in the three column selectors
ColumnPicks == {"Company_Name", "Price", "Extra"}

XPicks == {"Company_Name", "Year", "Price", "Extra"}

YPicks == {"Company_Name", "Price"}

\* selectbox "Choose Column"
SelectColumn ==
    /\ AnalysisReady
    /\ \E c \in ColumnPicks : col' = c
    /\ LoadData
    /\ UNCHANGED <<page, company, year_range, x, y, method>>

\* selectbox "X Axis"
SelectX ==
    /\ AnalysisReady
    /\ \E c \in XPicks : x' = c
    /\ LoadData
    /\ UNCHANGED <<page, company, year_range, col, y, method>>

\* selectbox "Y Axis"
SelectY ==
    /\ AnalysisReady
    /\ \E c \in YPicks : y' = c
    /\ LoadData
    /\ UNCHANGED <<page, company, year_range, col, x, method>>

\* selectbox "Select Method"
SelectMethod ==
    /\ AnalysisReady
    /\ \E m \in Methods : method' = m
    /\ LoadData
    /\ UNCHANGED <<page, company, year_range, col, x, y>>

Next ==
    \/ FirstRun
    \/ SelectPage
    \/ SelectBrand
    \/ SelectYear
    \/ SelectColumn
    \/ SelectX
    \/ SelectY
    \/ SelectMethod

Spec == Init /\ [][Next]_vars

\* ------------------------------------------------------------------------
\* Properties
\* ------------------------------------------------------------------------
AllClean == clean[1]

Insights == InsightsPage(InsightData)

OnInsights == started /\ page = "Insights & Conclusion"

\* row i of the cleaned table has its brand selected and its Year inside
\* the selected interval, both ends included
Selected(i) ==
    /\ AllClean.rows[i].Company_Name \in company
    /\ AllClean.rows[i].Year # NaN
    /\ 2 * year_range[1] <= AllClean.rows[i].Year[1]
    /\ AllClean.rows[i].Year[1] <= 2 * year_range[2]

Copies(rows, r) == Cardinality({i \in DOMAIN rows : rows[i] = r})

\* d is c with some rows left out, the others in their order
IsSubSeq(d, c) ==
    \E f \in [DOMAIN d -> DOMAIN c] :
        /\ \A i \in DOMAIN d : d[i] = c[f[i]]
        /\ \A i, j \in DOMAIN d : i < j => f[i] < f[j]

\* C1: on the Analysis page the working view df holds exactly the rows of
\* the cleaned table whose brand is selected and whose Year lies in the
\* closed interval: none that violates either test, none missing, never
\* more rows than the cleaned table, and no row when no brand is selected.
C1_ViewIsExactFilter ==
    AnalysisReady =>
        /\ \A r \in RowPool :
              Copies(df.rows, r)
                = Cardinality({i \in DOMAIN AllClean.rows :
                                   AllClean.rows[i] = r /\ Selected(i)})
        /\ Len(df.rows) <= Len(AllClean.rows)
        /\ (company = {} => df.rows = <<>>)

\* a row is kept and a row of a selected brand is dropped by its Year alone
\* although its Year equals an end of the interval of another kept row
C1_Witness ==
    /\ AnalysisReady
    /\ Len(df.rows) = 1
    /\ Len(AllClean.rows) = 2
    /\ company = BrandOptions(AllClean)
    /\ year_range[1] = year_range[2]
    /\ \A i \in DOMAIN AllClean.rows : AllClean.rows[i].Year # NaN

\* C2: with the brand multiselect and the year slider at their defaults the
\* working view is the whole cleaned table.
C2_DefaultsShowEverything ==
    (/\ AnalysisReady
     /\ company = BrandOptions(AllClean)
     /\ year_range = SliderBounds(AllClean))
        => df.rows = AllClean.rows

\* C3: every column of the working view is in exactly one of num_cols and
\* cat_cols.
C3_PartitionCoversColumns ==
    AnalysisReady =>
        \A c \in Range(df.cols) :
            (c \in Range(num_cols)) # (c \in Range(cat_cols))

IsNumeric(c) == df.dtypes[c] \in {"int64", "float64"}

IsCategorical(c) == df.dtypes[c] = "object"

Abs(n) == IF n < 0 THEN -n ELSE n

\* k thousandths is the correlation of the two series rounded to 3 decimals
IsRounded(k, sx, sy) ==
    LET n == CorrNum(sx, sy)
        d == CorrDen2(sx, sy)
        a == Abs(k)
    IN  /\ a <= 1000
        /\ (k > 0 => n > 0) /\ (k < 0 => n < 0)
        /\ (2 * a + 1) * (2 * a + 1) * d >= 4000000 * n * n
        /\ (a > 0 => (2 * a - 1) * (2 * a - 1) * d <= 4000000 * n * n)

\* C4: the figure of each tab follows the decision table: count chart or
\* histogram with density for one column; scatter plot with the rounded
\* correlation, box plot, or grouped count chart for two columns (also when
\* both are the same column); heatmap over the numeric columns or the
\* Fuel_Type / Price / Transmission bar chart for the chosen method.
C4_ChartDecisionTable ==
    LET fig1 == tab1
        fig2 == tab2
        fig3 == tab3
    IN
    AnalysisReady =>
        /\ IsCategorical(col) =>
              fig1.plot = "countplot" /\ fig1.y = col /\ fig1.x = ""
        /\ IsNumeric(col) =>
              fig1.plot = "histplot" /\ fig1.x = col /\ fig1.kde
        /\ (IsNumeric(x) /\ IsNumeric(y)) =>
              /\ fig2.plot = "scatterplot" /\ fig2.x = x /\ fig2.y = y
              /\ fig2.info[1] = "Correlation"
              /\ IF CorrIsNaN(Column(df, x), Column(df, y))
                 THEN fig2.info[2] = NaN
                 ELSE /\ fig2.info[2] # NaN
                      /\ IsRounded(fig2.info[2][1], Column(df, x), Column(df, y))
        /\ (IsCategorical(x) /\ IsNumeric(y)) =>
              fig2.plot = "boxplot" /\ fig2.x = x /\ fig2.y = y
        /\ ~(IsNumeric(x) /\ IsNumeric(y)) /\ ~(IsCategorical(x) /\ IsNumeric(y)) =>
              fig2.plot = "countplot" /\ fig2.x = x /\ fig2.hue = y
        /\ method = "Correlation Heatmap" =>
              /\ fig3.plot = "heatmap"
              /\ Range(fig3.over) = {c \in Range(df.cols) : IsNumeric(c)}
              /\ DOMAIN fig3.data = Range(fig3.over) \X Range(fig3.over)
        /\ method = "Fuel vs Price" =>
              /\ fig3.plot = "barplot"
              /\ fig3.x = "Fuel_Type" /\ fig3.y = "Price"
              /\ fig3.hue = "Transmission"

\* a scatter plot of two different numeric columns with a defined
\* correlation, beside a count chart and the fixed bar chart
C4_Witness ==
    /\ AnalysisReady
    /\ x = "Year" /\ y = "Price"
    /\ tab2.plot = "scatterplot"
    /\ tab2.info[2] # NaN
    /\ IsCategorical(col) /\ tab1.plot = "countplot"
    /\ method = "Fuel vs Price"

\* C5: what the Insights page writes is computed from the whole cleaned
\* table as it is on disk, whatever the filters of the session are.
C5_InsightsIgnoreFilters ==
    OnInsights => Insights = InsightsPage(read_csv(fileClean))

\* the Insights page is shown while the filters of the session select a
\* view whose summary differs
C5_Witness ==
    /\ OnInsights
    /\ year_range # <<>>
    /\ Insights.error = ""
    /\ company # BrandOptions(AllClean)
    /\ InsightsPage(df) # Insights

PriceCorrIsNaN(c) == CorrIsNaN(Column(AllClean, c), Column(AllClean, "Price"))

\* C6: the strongest price driver is a numeric column other than Price
\* whose correlation with Price no other numeric column exceeds.
C6_DriverIsBestOtherColumn ==
    LET shown == Insights IN
    (OnInsights /\ shown.error = "") =>
        LET drv == shown.strongest_price_driver
            others == {c \in Range(AllClean.cols) :
                          AllClean.dtypes[c] \in {"int64", "float64"}} \ {"Price"}
        IN  /\ drv \in others
            /\ \A c \in others :
                  \/ PriceCorrIsNaN(c)
                  \/ /\ ~PriceCorrIsNaN(drv)
                     /\ ~CorrGreater(Column(AllClean, c), Column(AllClean, drv),
                                     Column(AllClean, "Price"))

\* C7: the most expensive brand is the brand of the first row, in table
\* order, whose Price is the largest Price of the cleaned table.
C7_BrandOfFirstMaxPrice ==
    LET shown == Insights IN
    (OnInsights /\ shown.error = "") =>
        \E i \in DOMAIN AllClean.rows :
            /\ shown.most_expensive_brand = AllClean.rows[i].Company_Name
            /\ AllClean.rows[i].Price # NaN
            /\ \A j \in DOMAIN AllClean.rows :
                  AllClean.rows[j].Price # NaN =>
                      /\ AllClean.rows[j].Price[1] <= AllClean.rows[i].Price[1]
                      /\ (j < i => AllClean.rows[j].Price[1] < AllClean.rows[i].Price[1])

\* two rows of different brands share the largest Price
C7_Witness ==
    /\ OnInsights
    /\ Insights.error = ""
    /\ \E i, j \in DOMAIN AllClean.rows :
          /\ i < j
          /\ AllClean.rows[i].Price = SeriesMax(Column(AllClean, "Price"))
          /\ AllClean.rows[j].Price = AllClean.rows[i].Price
          /\ AllClean.rows[j].Company_Name # AllClean.rows[i].Company_Name

\* C9: each of the two files is read at most once; once the script has run
\* both were read exactly once and every run works on the memoized tables.
C9_FilesReadOnce ==
    /\ rawReads <= 1 /\ cleanReads <= 1
    /\ started =>
          /\ rawReads = 1 /\ cleanReads = 1
          /\ raw = rawCache /\ clean = cleanCache

\* a run after a page switch and a filter change
C9_Witness ==
    /\ started
    /\ page = "Analysis"
    /\ company # BrandOptions(AllClean)
    /\ rawReads = 1 /\ cleanReads = 1

\* C10: after any interactions raw and clean are the tables of the files,
\* and the working view has all columns of clean, with their dtypes, and
\* rows of clean in their order.
C10_SourcesUntouched ==
    started =>
        /\ raw[1] = read_csv(fileRaw)
        /\ AllClean = read_csv(fileClean)
        /\ AnalysisReady =>
              /\ df.cols = AllClean.cols
              /\ df.dtypes = AllClean.dtypes
              /\ IsSubSeq(df.rows, AllClean.rows)
              /\ \A i \in DOMAIN df.rows :
                    DOMAIN df.rows[i] = Range(AllClean.cols)

\* a view that dropped a row because of its brand
C10_Witness ==
    /\ AnalysisReady
    /\ df.rows # <<>>
    /\ Len(df.rows) < Len(AllClean.rows)
    /\ company # BrandOptions(AllClean)
    /\ year_range = SliderBounds(AllClean)
    /\ \A i \in DOMAIN AllClean.rows : AllClean.rows[i].Year # NaN

====
